---------------------------- MODULE Spec2Model ----------------------------
(***************************************************************************)
(* A model of exercise_utils.py: helpers that load an AEDAT4 event-camera  *)
(* recording, drain its event stream, crop it to a rectangle (post-hoc and *)
(* streaming), summarise a collection and preview source against crop.     *)
(*                                                                         *)
(* The recording reader, the event store and the region filter belong to   *)
(* the dv_processing library; they are modelled by what the calls in the   *)
(* source rely on: a reader delivers the batches of its file one per pull  *)
(* (None where the file has none to give) and reports running until its    *)
(* end; a store is the ordered sequence of its events; a region filter     *)
(* buffers what it accepts and, on generateEvents, returns the buffered    *)
(* events inside its rectangle and empties its buffer.                     *)
(***************************************************************************)
EXTENDS Integers, Sequences, FiniteSets

(***************************************************************************)
(* Bounds of the model.                                                    *)
(***************************************************************************)
MaxBatches  == 2   \* batches (None included) a recording holds
MaxBatchLen == 2   \* events in one batch
MaxEvents   == 3   \* events in one recording
MaxCrop     == 2   \* crop_width and crop_height of the recordings' crops
MaxCoord    == 3   \* |center coordinate| of the crop-origin inputs
MaxSize     == 5   \* width and height of the crop-origin inputs

\* The sensor's pixel resolution (width, height) and the pixels that fire.
Resolution == <<3, 3>>
Pixels     == {<<0, 0>>, <<1, 2>>}
\* The centers the recordings are cropped around.
Centers    == {<<0, 0>>, <<1, 1>>, <<2, 3>>}

VARIABLES
    file,                  \* the recording: the batches its event stream delivers
    avail,                 \* isEventStreamAvailable() of the recording
    endless,               \* the reader of this recording never reports not-running
    center,                \* argument: center of the crop
    crop_width,            \* argument
    crop_height,           \* argument
    pc,                    \* where the program is
    data,                  \* the reader opened by the running top-level function
    inner,                 \* the reader opened inside crop_area
    events,                \* get_events_from's local store inside crop_area
    region_filter,         \* the dv.EventRegionFilter of the running crop
    crop_origin,           \* the value of the last _calculate_crop_origin call
    source_events,         \* crop_preview_area: get_events_from(data)
    filtered_events,       \* what crop_area returned
    cropped_event_streams, \* crop_area_all_event_streams' store
    visualizer,            \* the two images crop_preview_area concatenates
    info,                  \* what the last events_info call gave
    log,                   \* the levels of the messages logged
    returned,              \* the functions that have returned
    raised                 \* the exception that ended the program, or "none"

vars == <<file, avail, endless, center, crop_width, crop_height, pc, data, inner,
          events, region_filter, crop_origin, source_events, filtered_events,
          cropped_event_streams, visualizer, info, log, returned, raised>>

inputs == <<file, avail, endless, center, crop_width, crop_height>>

-----------------------------------------------------------------------------
(***************************************************************************)
(* Recordings.                                                             *)
(***************************************************************************)
NoneBatch == [isNone |-> TRUE, store |-> <<>>]

Batch(s) == [isNone |-> FALSE, store |-> s]

\* Timestamps of the k-th event of a recording, non-decreasing in k: clock 1
\* is strictly increasing (100, 150, 300, ...), clock 2 repeats timestamps.
TimeAt(clock, k) ==
    IF clock = 1
    THEN (IF k = 1 THEN 100 ELSE IF k = 2 THEN 150 ELSE 300 + 150 * (k - 3))
    ELSE 100 + 50 * ((k - 1) \div 2)

Clocks == {1, 2}

RECURSIVE SumTo(_, _)
SumTo(sizes, n) ==
    IF n = 0 THEN 0
    ELSE SumTo(sizes, n - 1) + (IF sizes[n] < 0 THEN 0 ELSE sizes[n])

\* The shapes of a recording: per batch, -1 for None or the batch's size.
Shapes ==
    {s \in UNION {[1..n -> -1..MaxBatchLen] : n \in 0..MaxBatches} :
        SumTo(s, Len(s)) <= MaxEvents}

Recording(shape, px, clock) ==
    [i \in 1..Len(shape) |->
        IF shape[i] < 0 THEN NoneBatch
        ELSE Batch([j \in 1..shape[i] |->
                 LET k == SumTo(shape, i - 1) + j
                 IN  [timestamp |-> TimeAt(clock, k), x |-> px[k][1], y |-> px[k][2]]])]

Recordings ==
    {Recording(s, px, c) :
        s \in Shapes, px \in [1..MaxEvents -> Pixels], c \in Clocks}

-----------------------------------------------------------------------------
(***************************************************************************)
(* dv.io.MonoCameraRecording: the reader.                                  *)
(***************************************************************************)
Closed == [open |-> FALSE, pos |-> 1, running |-> FALSE]

\* Mutant: the constructor hands back the reader the program already holds.
MonoCameraRecording_Shared(held) ==
    IF held.open THEN held ELSE [open |-> TRUE, pos |-> 1, running |-> TRUE]

\* dv.io.MonoCameraRecording(aedat4_file): a reader of its own, at the start
\* of the file, whatever the reader the program already holds has done.
MonoCameraRecording(held) == [open |-> TRUE, pos |-> 1, running |-> TRUE]

isRunning(reader) == reader.running

\* What getNextEventBatch() returns: the next batch of the file, None past
\* its end.
getNextEventBatch(reader) ==
    IF reader.pos <= Len(file) THEN file[reader.pos] ELSE NoneBatch

\* The reader after the pull: past the last batch it stops running, unless
\* the stream is endless.
AfterPull(reader) ==
    IF reader.pos <= Len(file)
    THEN [reader EXCEPT !.pos = @ + 1,
                        !.running = endless \/ reader.pos < Len(file)]
    ELSE [reader EXCEPT !.running = endless]

(***************************************************************************)
(* dv.EventStore.                                                          *)
(***************************************************************************)
EventStore == <<>>

add(store, other) == store \o other

size(store) == Len(store)

timestamps(store) == [i \in 1..Len(store) |-> store[i].timestamp]

\* duration(): highest minus lowest time, 0 for an empty store.
duration(store) ==
    IF Len(store) = 0 THEN 0
    ELSE store[Len(store)].timestamp - store[1].timestamp

(***************************************************************************)
(* dv.EventRegionFilter.                                                   *)
(***************************************************************************)
EventRegionFilter(roi) ==
    [roi |-> [x |-> roi[1], y |-> roi[2], w |-> roi[3], h |-> roi[4]],
     buffer |-> <<>>]

NoFilter == [roi |-> [x |-> 0, y |-> 0, w |-> 0, h |-> 0], buffer |-> <<>>]

\* Mutant: the right and bottom edges count as inside.
retain_Inclusive(roi, e) ==
    /\ roi.x <= e.x /\ e.x <= roi.x + roi.w
    /\ roi.y <= e.y /\ e.y <= roi.y + roi.h

\* cv::Rect::contains: the left and top edges are inside, the others not.
retain(roi, e) ==
    /\ roi.x <= e.x /\ e.x < roi.x + roi.w
    /\ roi.y <= e.y /\ e.y < roi.y + roi.h

accept(filter, store) == [filter EXCEPT !.buffer = @ \o store]

RECURSIVE Retained(_, _)
Retained(roi, buffer) ==
    IF buffer = <<>> THEN <<>>
    ELSE (IF retain(roi, Head(buffer)) THEN <<Head(buffer)>> ELSE <<>>)
         \o Retained(roi, Tail(buffer))

\* generateEvents(): the retained events of the buffer ...
generateEvents(filter) == Retained(filter.roi, filter.buffer)

\* Mutant: generateEvents leaves the buffer as it was.
AfterGenerate_KeepsBuffer(filter) == filter

\* ... and the filter it leaves, its buffer emptied.
AfterGenerate(filter) == [filter EXCEPT !.buffer = <<>>]

-----------------------------------------------------------------------------
(***************************************************************************)
(* exercise_utils.py                                                       *)
(***************************************************************************)

\* Mutant: the float is floored.
PyInt_Floor(twice) == twice \div 2

\* Python's int() of the float twice/2: truncation toward zero.
PyInt(twice) ==
    IF twice >= 0 THEN twice \div 2 ELSE -((-twice) \div 2)

_calculate_crop_origin(c, width, height) ==
    <<PyInt(2 * c[1] - width), PyInt(2 * c[2] - height)>>

\* load_data_from: the reader it returns, and the log it leaves.
load_data_from(held) == MonoCameraRecording(held)

\* Mutant: the test of isEventStreamAvailable() is inverted.
LoadLog_Inverted(l) ==
    IF avail THEN Append(l, "CRITICAL") ELSE l

LoadLog(l) ==
    IF ~avail THEN Append(l, "CRITICAL") ELSE l

\* event_stream_resolution
event_stream_resolution(reader) == Resolution

\* Mutant: the loop also ends when the reader has no batch to give.
LoopRuns_StopsOnNone(reader) ==
    isRunning(reader) /\ ~getNextEventBatch(reader).isNone

\* The condition of the two drain loops: while data.isRunning().
LoopRuns(reader) == isRunning(reader)

\* Mutant: the batch is assigned to the store, not added.
Collected_KeepsLast(store, batch) ==
    IF ~batch.isNone THEN batch.store ELSE store

\* The body of get_events_from's loop: the store after one pull.
Collected(store, batch) ==
    IF ~batch.isNone THEN add(store, batch.store) ELSE store

\* Mutant: a filtered batch of one event is skipped too.
Surviving_MoreThanOne(filtered) == size(filtered) > 1

\* The streaming loop's test on a filtered batch.
Surviving(filtered) == size(filtered) > 0

\* The body of crop_area_all_event_streams' loop: the output store and the
\* filter after one pull.
StreamedStore(store, filter, batch) ==
    IF ~batch.isNone
    THEN LET filtered == generateEvents(accept(filter, batch.store))
         IN  IF Surviving(filtered) THEN add(store, filtered) ELSE store
    ELSE store

StreamedFilter(filter, batch) ==
    IF ~batch.isNone THEN AfterGenerate(accept(filter, batch.store)) ELSE filter

\* Mutant: a negative index counts from the front.
PyIndex_FromFront(s, i) ==
    IF i >= 0
    THEN (IF i < Len(s) THEN [error |-> "none", value |-> s[i + 1]]
          ELSE [error |-> "IndexError", value |-> 0])
    ELSE (IF -i <= Len(s) THEN [error |-> "none", value |-> s[-i]]
          ELSE [error |-> "IndexError", value |-> 0])

\* Mutant: an index out of range gives 0 instead of raising.
PyIndex_Lenient(s, i) ==
    IF i >= 0
    THEN (IF i < Len(s) THEN [error |-> "none", value |-> s[i + 1]]
          ELSE [error |-> "none", value |-> 0])
    ELSE (IF -i <= Len(s) THEN [error |-> "none", value |-> s[Len(s) + i + 1]]
          ELSE [error |-> "none", value |-> 0])

\* Python's sequence[i]: from the end for a negative i, IndexError out of range.
PyIndex(s, i) ==
    IF i >= 0
    THEN (IF i < Len(s) THEN [error |-> "none", value |-> s[i + 1]]
          ELSE [error |-> "IndexError", value |-> 0])
    ELSE (IF -i <= Len(s) THEN [error |-> "none", value |-> s[Len(s) + i + 1]]
          ELSE [error |-> "IndexError", value |-> 0])

StatsKeys == {"duration", "first timestamp", "last timestamp", "events count"}

NoInfo == [called |-> FALSE, of |-> "", error |-> "none", at |-> "", value |-> <<>>]

\* events_info: the dictionary's entries are evaluated in the order written.
events_info(name, store) ==
    LET d     == duration(store)
        first == PyIndex(timestamps(store), 0)
        last  == PyIndex(timestamps(store), -1)
    IN  IF first.error # "none"
        THEN [called |-> TRUE, of |-> name, error |-> first.error,
              at |-> "first timestamp", value |-> <<>>]
        ELSE IF last.error # "none"
        THEN [called |-> TRUE, of |-> name, error |-> last.error,
              at |-> "last timestamp", value |-> <<>>]
        ELSE [called |-> TRUE, of |-> name, error |-> "none", at |-> "",
              value |-> [k \in StatsKeys |->
                  CASE k = "duration"        -> d
                    [] k = "first timestamp" -> first.value
                    [] k = "last timestamp"  -> last.value
                    [] k = "events count"    -> size(store)]]

\* EventVisualizer.generateImage: the pixels of the canvas the events light.
generateImage(resolution, store) ==
    {<<store[i].x, store[i].y>> : i \in 1..Len(store)}
        \cap ((0..(resolution[1] - 1)) \X (0..(resolution[2] - 1)))

-----------------------------------------------------------------------------
(***************************************************************************)
(* The program: a session that calls crop_preview_area and                 *)
(* crop_area_all_event_streams on one recording and one rectangle, in      *)
(* either order, and events_info on the collections they returned.         *)
(***************************************************************************)
Blank ==
    /\ pc = "idle"
    /\ data = Closed /\ inner = Closed
    /\ events = EventStore
    /\ region_filter = NoFilter
    /\ crop_origin = <<0, 0>>
    /\ source_events = EventStore
    /\ filtered_events = EventStore
    /\ cropped_event_streams = EventStore
    /\ visualizer = <<{}, {}>>
    /\ info = NoInfo
    /\ log = <<>>
    /\ returned = {}
    /\ raised = "none"

Init ==
    /\ file \in Recordings
    /\ avail \in BOOLEAN
    /\ ~avail => file = <<>>
    /\ endless \in BOOLEAN
    /\ center \in Centers
    /\ crop_width \in 1..MaxCrop
    /\ crop_height \in 1..MaxCrop
    /\ Blank

\* A pull from a recording without event stream is the library's to answer:
\* it may deliver nothing or raise.
PullRaises ==
    /\ ~avail
    /\ pc' = "raised"
    /\ raised' = "RuntimeError"

\* crop_preview_area, lines 134-136 up to the loop of get_events_from.
CallCropPreviewArea ==
    /\ pc = "idle"
    /\ "crop_preview_area" \notin returned
    /\ data' = load_data_from(data)
    /\ log' = LoadLog(log)
    /\ source_events' = EventStore
    /\ pc' = "preview_drain"
    /\ UNCHANGED <<inputs, inner, events, region_filter, crop_origin,
                   filtered_events, cropped_event_streams, visualizer, info,
                   returned, raised>>

\* get_events_from(data) in crop_preview_area: one iteration, or the return.
GetEventsFromData ==
    /\ pc = "preview_drain"
    /\ \/ /\ LoopRuns(data)
          /\ data' = AfterPull(data)
          /\ source_events' = Collected(source_events, getNextEventBatch(data))
          /\ UNCHANGED <<pc, returned, raised>>
       \/ /\ LoopRuns(data)
          /\ PullRaises
          /\ UNCHANGED <<data, source_events, returned>>
       \/ /\ ~LoopRuns(data)
          /\ pc' = "preview_crop"
          /\ returned' = returned \cup {"get_events_from"}
          /\ UNCHANGED <<data, source_events, raised>>
    /\ UNCHANGED <<inputs, inner, events, region_filter, crop_origin,
                   filtered_events, cropped_event_streams, visualizer, info, log>>

\* crop_area, lines 71-73 up to the loop of get_events_from.
CallCropArea ==
    /\ pc = "preview_crop"
    /\ crop_origin' = _calculate_crop_origin(center, crop_width, crop_height)
    /\ region_filter' = EventRegionFilter(
           <<crop_origin'[1], crop_origin'[2], crop_width, crop_height>>)
    /\ inner' = load_data_from(data)
    /\ log' = LoadLog(log)
    /\ events' = EventStore
    /\ pc' = "crop_drain"
    /\ UNCHANGED <<inputs, data, source_events, filtered_events,
                   cropped_event_streams, visualizer, info, returned, raised>>

\* get_events_from(load_data_from(aedat4_file)) in crop_area.
GetEventsFromInner ==
    /\ pc = "crop_drain"
    /\ \/ /\ LoopRuns(inner)
          /\ inner' = AfterPull(inner)
          /\ events' = Collected(events, getNextEventBatch(inner))
          /\ UNCHANGED <<pc, raised>>
       \/ /\ LoopRuns(inner)
          /\ PullRaises
          /\ UNCHANGED <<inner, events>>
       \/ /\ ~LoopRuns(inner)
          /\ pc' = "crop_filter"
          /\ UNCHANGED <<inner, events, raised>>
    /\ UNCHANGED <<inputs, data, region_filter, crop_origin, source_events,
                   filtered_events, cropped_event_streams, visualizer, info, log,
                   returned>>

\* crop_area, lines 73-75: accept the whole stream, generate, return.
CropAreaFilter ==
    /\ pc = "crop_filter"
    /\ filtered_events' = generateEvents(accept(region_filter, events))
    /\ region_filter' = AfterGenerate(accept(region_filter, events))
    /\ returned' = returned \cup {"crop_area"}
    /\ pc' = "preview_render"
    /\ UNCHANGED <<inputs, data, inner, events, crop_origin, source_events,
                   cropped_event_streams, visualizer, info, log, raised>>

\* crop_preview_area, lines 139-155.
PreviewRender ==
    /\ pc = "preview_render"
    /\ visualizer' =
           <<generateImage(event_stream_resolution(data), source_events),
             generateImage(event_stream_resolution(data), filtered_events)>>
    /\ returned' = returned \cup {"crop_preview_area"}
    /\ pc' = "idle"
    /\ UNCHANGED <<inputs, data, inner, events, region_filter, crop_origin,
                   source_events, filtered_events, cropped_event_streams, info,
                   log, raised>>

\* crop_area_all_event_streams, lines 91-95.
CallCropAreaAllEventStreams ==
    /\ pc = "idle"
    /\ "crop_area_all_event_streams" \notin returned
    /\ crop_origin' = _calculate_crop_origin(center, crop_width, crop_height)
    /\ region_filter' = EventRegionFilter(
           <<crop_origin'[1], crop_origin'[2], crop_width, crop_height>>)
    /\ cropped_event_streams' = EventStore
    /\ data' = load_data_from(data)
    /\ log' = LoadLog(log)
    /\ pc' = "stream_drain"
    /\ UNCHANGED <<inputs, inner, events, source_events, filtered_events,
                   visualizer, info, returned, raised>>

\* crop_area_all_event_streams, lines 97-105: one iteration, or the return.
StreamLoop ==
    /\ pc = "stream_drain"
    /\ \/ /\ LoopRuns(data)
          /\ data' = AfterPull(data)
          /\ cropped_event_streams' =
                 StreamedStore(cropped_event_streams, region_filter,
                               getNextEventBatch(data))
          /\ region_filter' = StreamedFilter(region_filter, getNextEventBatch(data))
          /\ UNCHANGED <<pc, returned, raised>>
       \/ /\ LoopRuns(data)
          /\ PullRaises
          /\ UNCHANGED <<data, cropped_event_streams, region_filter, returned>>
       \/ /\ ~LoopRuns(data)
          /\ pc' = "idle"
          /\ returned' = returned \cup {"crop_area_all_event_streams"}
          /\ UNCHANGED <<data, cropped_event_streams, region_filter, raised>>
    /\ UNCHANGED <<inputs, inner, events, crop_origin, source_events,
                   filtered_events, visualizer, info, log>>

\* The collections a caller holds once the functions have returned.
Held ==
    (IF "crop_preview_area" \in returned
     THEN {<<"source_events", source_events>>, <<"filtered_events", filtered_events>>}
     ELSE {})
    \cup
    (IF "crop_area_all_event_streams" \in returned
     THEN {<<"cropped_event_streams", cropped_event_streams>>}
     ELSE {})

\* events_info on one of them.
CallEventsInfo ==
    /\ pc = "idle"
    /\ \E h \in Held :
          /\ info' = events_info(h[1], h[2])
          /\ raised' = info'.error
          /\ pc' = IF info'.error = "none" THEN "idle" ELSE "raised"
    /\ UNCHANGED <<inputs, data, inner, events, region_filter, crop_origin,
                   source_events, filtered_events, cropped_event_streams,
                   visualizer, log, returned>>

Next ==
    \/ CallCropPreviewArea
    \/ GetEventsFromData
    \/ CallCropArea
    \/ GetEventsFromInner
    \/ CropAreaFilter
    \/ PreviewRender
    \/ CallCropAreaAllEventStreams
    \/ StreamLoop
    \/ CallEventsInfo

Spec == Init /\ [][Next]_vars

\* The drain loops under fairness: the program is sequential and nothing but
\* its own steps holds it up. The rectangle, which the loops' control does
\* not read, is the largest one.
InitDrain ==
    /\ Init
    /\ center = <<1, 1>>
    /\ crop_width = MaxCrop
    /\ crop_height = MaxCrop

FairSpec == InitDrain /\ [][Next]_vars /\ WF_vars(Next)

(***************************************************************************)
(* _calculate_crop_origin on its own, over a range of centers and sizes.   *)
(***************************************************************************)
OriginCenters ==
    ((-MaxCoord..MaxCoord) \X (-MaxCoord..MaxCoord)) \cup {<<173, 130>>}

OriginSizes == (1..MaxSize) \cup {100}

InitOrigin ==
    /\ file = <<>> /\ avail = TRUE /\ endless = FALSE
    /\ center \in OriginCenters
    /\ crop_width \in OriginSizes
    /\ crop_height \in OriginSizes
    /\ Blank

CallCalculateCropOrigin ==
    /\ pc = "idle"
    /\ crop_origin' = _calculate_crop_origin(center, crop_width, crop_height)
    /\ pc' = "origin_returned"
    /\ UNCHANGED <<inputs, data, inner, events, region_filter, source_events,
                   filtered_events, cropped_event_streams, visualizer, info, log,
                   returned, raised>>

NextOrigin == CallCalculateCropOrigin

SpecOrigin == InitOrigin /\ [][NextOrigin]_vars

-----------------------------------------------------------------------------
(***************************************************************************)
(* What the properties below speak of.                                     *)
(***************************************************************************)

\* The events of a sequence of batches, in order; a None batch has none.
RECURSIVE Concat(_)
Concat(batches) ==
    IF Len(batches) = 0 THEN <<>>
    ELSE Concat(SubSeq(batches, 1, Len(batches) - 1))
         \o (IF batches[Len(batches)].isNone THEN <<>>
             ELSE batches[Len(batches)].store)

RECURSIVE TotalSize(_)
TotalSize(batches) ==
    IF batches = <<>> THEN 0
    ELSE (IF Head(batches).isNone THEN 0 ELSE Len(Head(batches).store))
         + TotalSize(Tail(batches))

\* The batches a reader has delivered so far.
Delivered(reader) == SubSeq(file, 1, reader.pos - 1)

\* The rectangle of the crop: pixels ox..ox+w-1 by oy..oy+h-1.
InsideCrop(e) ==
    LET o == _calculate_crop_origin(center, crop_width, crop_height)
    IN  /\ e.x \in o[1]..(o[1] + crop_width - 1)
        /\ e.y \in o[2]..(o[2] + crop_height - 1)

CropOf(store) == SelectSeq(store, InsideCrop)

Occurrences(e, store) == Cardinality({i \in 1..Len(store) : store[i] = e})

StoreNamed(name) ==
    CASE name = "source_events"         -> source_events
      [] name = "filtered_events"       -> filtered_events
      [] name = "cropped_event_streams" -> cropped_event_streams
      [] OTHER                          -> <<>>

InLoop == pc \in {"preview_drain", "crop_drain", "stream_drain"}

\* The reader the loop at pc drains.
LoopReader == IF pc = "crop_drain" THEN inner ELSE data

\* Both batches of the recording carry events.
TwoEventBatches ==
    /\ Len(file) = 2
    /\ \A i \in 1..2 : ~file[i].isNone /\ Len(file[i].store) > 0

-----------------------------------------------------------------------------
\* C1: once crop_area and crop_area_all_event_streams have both returned for
\* the recording and the rectangle, their collections are identical: same
\* size, same ordered timestamps, same events.
C1_VariantsAgree ==
    ({"crop_area", "crop_area_all_event_streams"} \subseteq returned) =>
        /\ Len(filtered_events) = Len(cropped_event_streams)
        /\ timestamps(filtered_events) = timestamps(cropped_event_streams)
        /\ filtered_events = cropped_event_streams

\* Both variants returned a crop that takes events from two batches and
\* leaves one event of the recording out.
C1_Witness ==
    /\ {"crop_area", "crop_area_all_event_streams"} \subseteq returned
    /\ TwoEventBatches
    /\ Len(cropped_event_streams) = 2
    /\ Len(source_events) = 3
    /\ \A i \in 1..2 : \E j \in 1..Len(file[i].store) : InsideCrop(file[i].store[j])

\* C3: the store get_events_from builds is, at every point of its loop and at
\* its return, the concatenation in pull order of the non-null batches the
\* reader has delivered; its size is the sum of their sizes; and a non-empty
\* result ends no earlier than it starts.
C3_AggregationComplete ==
    /\ pc \in {"preview_drain", "preview_crop", "crop_drain", "crop_filter",
               "preview_render"} =>
           /\ source_events = Concat(Delivered(data))
           /\ size(source_events) = TotalSize(Delivered(data))
    /\ pc \in {"crop_drain", "crop_filter"} =>
           /\ events = Concat(Delivered(inner))
           /\ size(events) = TotalSize(Delivered(inner))
    /\ ("get_events_from" \in returned /\ Len(source_events) > 0) =>
           source_events[Len(source_events)].timestamp >= source_events[1].timestamp

\* get_events_from returned three events pulled as two batches.
C3_Witness ==
    /\ pc = "preview_crop"
    /\ TwoEventBatches
    /\ Len(source_events) = 3
    /\ source_events[3].timestamp > source_events[1].timestamp

\* C4 (state part): events_info of a non-empty collection gives exactly the
\* four keys, with the first and last event's timestamps, the number of
\* events, and duration = last timestamp - first timestamp.
C4_Stats ==
    (info.called /\ Len(StoreNamed(info.of)) > 0) =>
        LET s == StoreNamed(info.of)
        IN  /\ info.error = "none"
            /\ DOMAIN info.value =
                   {"duration", "first timestamp", "last timestamp", "events count"}
            /\ info.value["first timestamp"] = s[1].timestamp
            /\ info.value["last timestamp"] = s[Len(s)].timestamp
            /\ info.value["events count"] = Len(s)
            /\ info.value["duration"] =
                   info.value["last timestamp"] - info.value["first timestamp"]

\* C4: the statistics are right in every state, and the step that computes
\* them leaves every collection as it was.
C4_StatsCorrect ==
    /\ []C4_Stats
    /\ [][info' # info =>
            UNCHANGED <<source_events, filtered_events, cropped_event_streams>>]_vars

\* events_info was given timestamps [100, 150, 300].
C4_Witness ==
    /\ info.called /\ info.error = "none"
    /\ timestamps(StoreNamed(info.of)) = <<100, 150, 300>>
    /\ info.value["duration"] = 200
    /\ info.value["first timestamp"] = 100
    /\ info.value["last timestamp"] = 300
    /\ info.value["events count"] = 3

\* C5: for a rectangle strictly smaller than the resolution, what crop_area
\* returned and what crop_area_all_event_streams holds (during its loop and
\* at its return) has at most as many events as get_events_from returned,
\* and no event more often than there.
C5_CropNeverGrows ==
    (/\ crop_width < Resolution[1]
     /\ crop_height < Resolution[2]
     /\ "get_events_from" \in returned) =>
        /\ "crop_area" \in returned =>
               /\ Len(filtered_events) <= Len(source_events)
               /\ \A i \in 1..Len(filtered_events) :
                      Occurrences(filtered_events[i], filtered_events)
                          <= Occurrences(filtered_events[i], source_events)
        /\ (pc = "stream_drain" \/ "crop_area_all_event_streams" \in returned) =>
               /\ Len(cropped_event_streams) <= Len(source_events)
               /\ \A i \in 1..Len(cropped_event_streams) :
                      Occurrences(cropped_event_streams[i], cropped_event_streams)
                          <= Occurrences(cropped_event_streams[i], source_events)

\* The streaming crop ran its one filter over two batches of events and kept
\* some of them, not all.
C5_Witness ==
    /\ crop_width < Resolution[1] /\ crop_height < Resolution[2]
    /\ {"get_events_from", "crop_area_all_event_streams"} \subseteq returned
    /\ TwoEventBatches
    /\ Len(cropped_event_streams) > 0
    /\ Len(cropped_event_streams) < Len(source_events)

\* C6: what crop_area and crop_area_all_event_streams return is the
\* subsequence, in source order, of the recording's events whose pixel lies
\* in the rectangle of origin _calculate_crop_origin(center, crop_width,
\* crop_height) and size (crop_width, crop_height).
C6_CropIsTheRectangle ==
    /\ "crop_area" \in returned =>
           /\ filtered_events = CropOf(Concat(file))
           /\ \A i \in 1..Len(filtered_events) : InsideCrop(filtered_events[i])
    /\ "crop_area_all_event_streams" \in returned =>
           /\ cropped_event_streams = CropOf(Concat(file))
           /\ \A i \in 1..Len(cropped_event_streams) :
                  InsideCrop(cropped_event_streams[i])

\* Both crops returned, with an event of the recording on the rectangle's
\* far edge (just outside) and one inside.
C6_Witness ==
    /\ {"crop_area", "crop_area_all_event_streams"} \subseteq returned
    /\ Len(filtered_events) > 0
    /\ \E i \in 1..Len(Concat(file)) :
          LET e == Concat(file)[i]
              o == _calculate_crop_origin(center, crop_width, crop_height)
          IN  e.x \in o[1]..(o[1] + crop_width - 1) /\ e.y = o[2] + crop_height

\* A step that runs load_data_from: the call of crop_preview_area or of
\* crop_area_all_event_streams, or crop_area's.
LoadStep ==
    \/ pc = "idle" /\ info' = info
    \/ pc = "preview_crop"

\* C7: load_data_from logs one critical message exactly when the recording
\* has no event stream, none otherwise, and in both cases returns a fresh
\* running reader with no exception, the program going on to drain it.
C7_LogAndContinue ==
    [][LoadStep =>
          /\ log' = IF avail THEN log ELSE log \o <<"CRITICAL">>
          /\ raised' = "none"
          /\ pc' \in {"preview_drain", "crop_drain", "stream_drain"}
          /\ LET reader == IF pc' = "crop_drain" THEN inner' ELSE data'
             IN  reader.open /\ reader.running /\ reader.pos = 1]_vars

\* Without event stream, crop_preview_area ran to its end: both its loads
\* logged, and aggregation and filtering were executed.
C7_Witness ==
    /\ ~avail
    /\ {"get_events_from", "crop_area", "crop_preview_area"} \subseteq returned
    /\ log = <<"CRITICAL", "CRITICAL">>
    /\ raised = "none"

\* C8: events_info of an empty collection gives no statistics: it raises an
\* index error at the first timestamp, which ends the program.
C8_EmptyRaises ==
    (info.called /\ Len(StoreNamed(info.of)) = 0) =>
        /\ info.error = "IndexError"
        /\ info.at = "first timestamp"
        /\ info.value = <<>>
        /\ raised = "IndexError"
        /\ pc = "raised"

\* events_info was called on the empty crop of a recording with events.
C8_Witness ==
    /\ info.called
    /\ info.of = "filtered_events"
    /\ filtered_events = <<>>
    /\ Len(source_events) > 0
    /\ raised = "IndexError"

\* The reader after one pull, as the loops must leave it.
Pulled(reader) ==
    [reader EXCEPT !.pos = IF @ <= Len(file) THEN @ + 1 ELSE @,
                   !.running = endless \/ reader.pos < Len(file)]

\* C9: while the reader reports running, an iteration pulls one batch and
\* the loop goes on (whatever the batch, None included); when it reports
\* not-running the loop ends without a pull. So with a reader that stops
\* the loops are left, and with one that never stops no function returns.
C9_DrainLoops ==
    /\ [][(InLoop /\ LoopReader.running) =>
             \/ /\ pc' = pc
                /\ (IF pc = "crop_drain" THEN inner' ELSE data') = Pulled(LoopReader)
             \/ ~avail /\ pc' = "raised"]_vars
    /\ [][(InLoop /\ ~LoopReader.running) =>
             /\ pc' \notin {pc, "raised"}
             /\ inner' = inner /\ data' = data]_vars
    /\ [](endless => returned = {})
    /\ ((InLoop /\ ~endless) ~> ~InLoop)

\* get_events_from returned events although its first pull gave None.
C9_Witness ==
    /\ "get_events_from" \in returned
    /\ Len(file) = 2 /\ file[1].isNone
    /\ Len(source_events) > 0
    /\ ~data.running

\* C10: crop_area drains a reader of its own from the start of the file
\* although crop_preview_area's reader is spent, so it collects the same
\* events as the first reader did; and the crop rendered on the right is the
\* crop of the events rendered on the left, a part of them.
C10_PreviewCrop ==
    /\ pc \in {"crop_drain", "crop_filter", "preview_render"} =>
           ~data.running /\ data.pos = Len(file) + 1
    /\ pc \in {"crop_filter", "preview_render"} => events = source_events
    /\ pc = "preview_render" => filtered_events = CropOf(source_events)
    /\ "crop_preview_area" \in returned =>
           /\ visualizer[1] = {<<source_events[i].x, source_events[i].y>> :
                                  i \in 1..Len(source_events)}
           /\ visualizer[2] = {<<CropOf(source_events)[i].x, CropOf(source_events)[i].y>> :
                                  i \in 1..Len(CropOf(source_events))}
           /\ visualizer[2] \subseteq visualizer[1]

\* The preview shows a crop that is neither empty nor the whole source.
C10_Witness ==
    /\ "crop_preview_area" \in returned
    /\ visualizer[2] # {}
    /\ visualizer[2] # visualizer[1]

-----------------------------------------------------------------------------
\* Floor and truncation of t/2.
FloorHalf(t) == t \div 2

\* q is t/2 with its fraction dropped: nearer to zero, less than one away.
IsTruncHalf(q, t) ==
    /\ 2 * q * (IF t >= 0 THEN 1 ELSE -1) <= t * (IF t >= 0 THEN 1 ELSE -1)
    /\ t * (IF t >= 0 THEN 1 ELSE -1) < 2 * q * (IF t >= 0 THEN 1 ELSE -1) + 2
    /\ q * t >= 0

\* C2 as stated: the origin is (floor(cx - w/2), floor(cy - h/2)).
C2_FloorOrigin ==
    pc = "origin_returned" =>
        crop_origin = <<FloorHalf(2 * center[1] - crop_width),
                        FloorHalf(2 * center[2] - crop_height)>>

\* C2, amended: the origin is (cx - w/2, cy - h/2) truncated toward zero,
\* which is the floor when the difference is not negative (or is whole);
\* (173,130) with 100 x 100 gives (123,80), (0,0) with 3 x 5 gives (-1,-2).
C2_TruncOrigin ==
    pc = "origin_returned" =>
        /\ IsTruncHalf(crop_origin[1], 2 * center[1] - crop_width)
        /\ IsTruncHalf(crop_origin[2], 2 * center[2] - crop_height)
        /\ (2 * center[1] - crop_width >= 0 \/ (2 * center[1] - crop_width) % 2 = 0)
               => crop_origin[1] = FloorHalf(2 * center[1] - crop_width)
        /\ (2 * center[2] - crop_height >= 0 \/ (2 * center[2] - crop_height) % 2 = 0)
               => crop_origin[2] = FloorHalf(2 * center[2] - crop_height)
        /\ (center = <<173, 130>> /\ crop_width = 100 /\ crop_height = 100)
               => crop_origin = <<123, 80>>
        /\ (center = <<0, 0>> /\ crop_width = 3 /\ crop_height = 5)
               => crop_origin = <<-1, -2>>

\* The origin of the 3 x 5 rectangle around (0,0) has been computed.
C2_Witness ==
    /\ pc = "origin_returned"
    /\ center = <<0, 0>> /\ crop_width = 3 /\ crop_height = 5
    /\ crop_origin = <<-1, -2>>

=============================================================================
